---- MODULE Spec2Model ----
(***************************************************************************)
(* gobandit: a multi-armed-bandit HTTP server (src/main.go).               *)
(*                                                                         *)
(* Three handlers run concurrently, one goroutine per request, against a   *)
(* PostgreSQL store (src/init.sql):                                        *)
(*   handleCreateTest    inserts a test and its arms in one transaction,   *)
(*   handleGetArm        reads a test's arms and picks one by Thompson     *)
(*                       sampling,                                         *)
(*   handleRecordResult  increments one counter of one arm by a single     *)
(*                       UPDATE ... RETURNING statement.                   *)
(* thompsonSampling, betaDistribution and gammaDistribution are pure up to *)
(* their random draws; the draws are inputs chosen from small sets.        *)
(***************************************************************************)
EXTENDS Integers, Sequences, FiniteSets, TLC

(***************************************************************************)
(* float64 values.  A value is a pair <<n, d>> with d >= 0 in lowest       *)
(* terms: d > 0 is the rational n/d, <<0,0>> is NaN, <<1,0>> is +Inf and   *)
(* <<-1,0>> is -Inf.  The arithmetic follows IEEE 754 on these values      *)
(* (0/0 = NaN, x/0 = +-Inf, Inf*0 = NaN, every comparison with NaN is      *)
(* false); rounding is not modelled, signed zeros are one zero.            *)
(***************************************************************************)
Abs(i) == IF i < 0 THEN -i ELSE i

Sign(i) == IF i < 0 THEN -1 ELSE IF i > 0 THEN 1 ELSE 0

RECURSIVE GCD(_, _)
GCD(a, b) == IF b = 0 THEN a ELSE GCD(b, a % b)

Norm(n, d) ==
    IF d = 0 THEN <<Sign(n), 0>>
    ELSE LET g == GCD(Abs(n), Abs(d))
         IN  <<Sign(d) * (n \div g), Abs(d) \div g>>

NaN == <<0, 0>>

PosInf == <<1, 0>>

NegInf == <<-1, 0>>

Zero == <<0, 1>>

One == <<1, 1>>

R(n, d) == Norm(n, d)

IsNaN(a) == a = NaN

IsFinite(a) == a[2] > 0

FNeg(a) == <<-a[1], a[2]>>

\* The sum over the least common denominator, so that no larger numbers are
\* formed than the result needs.
FAdd(a, b) ==
    IF a[2] = 0 /\ b[2] = 0
    THEN (IF a = b THEN a ELSE NaN)
    ELSE IF a[2] = 0 THEN (IF IsNaN(b) THEN NaN ELSE a)
    ELSE IF b[2] = 0 THEN (IF IsNaN(a) THEN NaN ELSE b)
    ELSE LET g == GCD(a[2], b[2])
         IN  Norm(a[1] * (b[2] \div g) + b[1] * (a[2] \div g), (a[2] \div g) * b[2])

FSub(a, b) == FAdd(a, FNeg(b))

\* The product, common factors cancelled before multiplying.
FMul(a, b) ==
    LET g1 == GCD(Abs(a[1]), b[2])
        g2 == GCD(Abs(b[1]), a[2])
        h1 == IF g1 = 0 THEN 1 ELSE g1
        h2 == IF g2 = 0 THEN 1 ELSE g2
    IN  Norm((a[1] \div h1) * (b[1] \div h2), (a[2] \div h2) * (b[2] \div h1))

\* 1/b: 1/0 is +Inf, 1/Inf is 0.
FInv(b) == IF b[1] < 0 THEN <<-b[2], -b[1]>> ELSE <<b[2], b[1]>>

FDiv(a, b) == FMul(a, FInv(b))

\* n1/d1 < n2/d2 for d1, d2 > 0, by the continued-fraction expansion of both
\* sides, so that no product of two large numbers is formed.
RECURSIVE RatLess(_, _, _, _)
RatLess(n1, d1, n2, d2) ==
    LET q1 == n1 \div d1
        q2 == n2 \div d2
        r1 == n1 % d1
        r2 == n2 % d2
    IN  IF q1 # q2 THEN q1 < q2
        ELSE IF r2 = 0 THEN FALSE
        ELSE IF r1 = 0 THEN TRUE
        ELSE RatLess(d2, r2, d1, r1)

FLt(a, b) ==
    IF IsNaN(a) \/ IsNaN(b) THEN FALSE
    ELSE IF a[2] = 0 \/ b[2] = 0 THEN a[1] * b[2] < b[1] * a[2] \/ (a = NegInf /\ b = PosInf)
    ELSE RatLess(a[1], a[2], b[1], b[2])

FGt(a, b) == FLt(b, a)

FLe(a, b) == ~IsNaN(a) /\ ~IsNaN(b) /\ ~FLt(b, a)

FGe(a, b) == FLe(b, a)

(***************************************************************************)
(* The math and math/rand calls of src/main.go.                            *)
(***************************************************************************)
\* Precision of the modelled math.Sqrt: results lie on the grid 1/SqrtScale.
SqrtScale == 2

\* rand.NormFloat64() draws: the integers -MaxNormNeg .. MaxNormPos.
MaxNormNeg == 4

MaxNormPos == 0

\* rand.Float64() draws: the multiples of 1/UnifGrid in [0, 1).
UnifGrid == 2

NormDraws == {R(k, 1) : k \in (-MaxNormNeg)..MaxNormPos}

UnifDraws == {R(k, UnifGrid) : k \in 0..(UnifGrid - 1)}

ISqrt(n) == CHOOSE k \in 0..n : k * k <= n /\ n < (k + 1) * (k + 1)

\* math.Sqrt: NaN for a negative or NaN argument, +Inf for +Inf, otherwise the
\* root rounded down to the grid.
Sqrt(a) ==
    IF IsNaN(a) \/ a[1] < 0 THEN NaN
    ELSE IF a = PosInf THEN PosInf
    ELSE Norm(ISqrt(a[1] * a[2] * SqrtScale * SqrtScale), a[2] * SqrtScale)

RECURSIVE IntPow(_, _)
IntPow(a, k) == IF k = 0 THEN One ELSE FMul(a, IntPow(a, k - 1))

\* math.Pow(a, e) for the exponents the program forms: a non-negative integer
\* (Pow(x, 4), Pow(u, 1/alpha) with alpha = 1/k) and +Inf (alpha = 0).
Pow(a, e) ==
    CASE IsNaN(a) \/ IsNaN(e) -> NaN
      [] e[2] = 1 /\ e[1] >= 0 -> IntPow(a, e[1])
      [] e = PosInf /\ IsFinite(a) /\ Abs(a[1]) < a[2] -> Zero
      [] e = PosInf /\ IsFinite(a) /\ Abs(a[1]) = a[2] -> One
      [] e = PosInf /\ IsFinite(a) /\ Abs(a[1]) > a[2] -> PosInf

\* math.Log is irrational on the positive reals; for a finite z > 0 the model
\* knows it through the bounds 1 - 1/z <= ln z <= z - 1.
LogLo(z) == FSub(One, FDiv(One, z))

LogHi(z) == FSub(z, One)

\* The set of truth values that  math.Log(u) < 0.5*x*x + d*(1-v+math.Log(v))
\* can take.  Log of a negative number or NaN is NaN, Log(0) is -Inf and
\* Log(+Inf) is +Inf, so these cases are decided exactly; for finite positive
\* u and v the comparison is decided when the bounds on ln decide it and is
\* left open otherwise.
LogTest(x, u, d, v) ==
    LET half == R(1, 2)
        xx   == FMul(half, FMul(x, x))
        rhs(lv) == FAdd(xx, FMul(d, FAdd(FSub(One, v), lv)))
        vExact == IsNaN(v) \/ v[1] <= 0 \/ v[2] = 0
        uExact == IsNaN(u) \/ u[1] <= 0 \/ u[2] = 0
        ExactLog(z) == IF IsNaN(z) \/ z[1] < 0 THEN NaN
                       ELSE IF z[1] = 0 THEN NegInf ELSE PosInf
        rLo == IF vExact THEN rhs(ExactLog(v)) ELSE rhs(LogLo(v))
        rHi == IF vExact THEN rhs(ExactLog(v)) ELSE rhs(LogHi(v))
        lLo == IF uExact THEN ExactLog(u) ELSE LogLo(u)
        lHi == IF uExact THEN ExactLog(u) ELSE LogHi(u)
    IN  IF IsNaN(rLo) \/ IsNaN(rHi) \/ IsNaN(lLo) THEN {FALSE}
        ELSE IF FLt(lHi, rLo) THEN {TRUE}
        ELSE IF FLe(rHi, lLo) THEN {FALSE}
        ELSE BOOLEAN

\* Mutant of AcceptTest: every candidate is accepted.
AcceptTestAlways(x, u, d, v) == {TRUE}

\* The truth values of the acceptance test of the rejection loop:
\*   u < 1-0.331*math.Pow(x, 4) || math.Log(u) < 0.5*x*x+d*(1-v+math.Log(v))
AcceptTest(x, u, d, v) ==
    IF FLt(u, FSub(One, FMul(R(331, 1000), Pow(x, R(4, 1)))))
    THEN {TRUE}
    ELSE LogTest(x, u, d, v)

\* d := alpha - 1/3.  Both operands of 1/3 are untyped integer constants, so
\* Go divides them as integers.
SqueezeD(alpha) == FSub(alpha, R(1 \div 3, 1))

\* c := 1 / math.Sqrt(9*d)
SqueezeC(d) == FDiv(One, Sqrt(FMul(R(9, 1), d)))

\* v := 1 + c*x; v = v * v * v
Cube(c, x) ==
    LET t == FAdd(One, FMul(c, x))
    IN  FMul(FMul(t, t), t)

\* The values the loop of gammaDistribution can return for alpha >= 1: d*v
\* for every pair of draws (x, u) the acceptance test can accept.
GammaLoop(alpha) ==
    LET d == SqueezeD(alpha)
        c == SqueezeC(d)
    IN  {FMul(d, Cube(c, x)) : x \in {y \in NormDraws :
            \E u \in UnifDraws : TRUE \in AcceptTest(y, u, d, Cube(c, y))}}

\* Mutant of GammaInner: the recursive call is made with alpha itself.
GammaInnerSame(alpha) == alpha

\* The argument of the recursive call: gammaDistribution(1+alpha)
GammaInner(alpha) == FAdd(One, alpha)

\* The factor of the recursive branch: math.Pow(u, 1/alpha)
GammaBoostFactor(u, alpha) == Pow(u, FDiv(One, alpha))

\* The values gammaDistribution(alpha) can return.
RECURSIVE gammaDistribution(_)
gammaDistribution(alpha) ==
    IF FLt(alpha, One)
    THEN {FMul(g, GammaBoostFactor(u, alpha)) :
            <<g, u>> \in gammaDistribution(GammaInner(alpha)) \X UnifDraws}
    ELSE GammaLoop(alpha)

\* return x / (x + y)
BetaRatio(x, y) == FDiv(x, FAdd(x, y))

\* The values betaDistribution(alpha, beta) can return.
betaDistribution(alpha, beta) ==
    {BetaRatio(x, y) : <<x, y>> \in gammaDistribution(alpha) \X gammaDistribution(beta)}

(***************************************************************************)
(* thompsonSampling (src/main.go:170-189).                                 *)
(***************************************************************************)
\* The zero value of models.Arm (src/models/models.go): `var selected Arm`.
ZeroArm == [ID |-> 0, Successes |-> 0, Failures |-> 0]

\* var ( maxSample float64; selected Arm )
SamplingStart == [maxSample |-> Zero, selected |-> ZeroArm]

\* Counters up to which the draws of betaDistribution are tabulated.
MaxTabulated == 4

\* Mutant of BetaArgs: the counters passed on as they are, without the +1.
BetaArgsRaw(arm) == <<R(arm.Successes, 1), R(arm.Failures, 1)>>

\* The arguments of the call of betaDistribution for arm:
\*   float64(arm.Successes+1), float64(arm.Failures+1)
BetaArgs(arm) == <<R(arm.Successes + 1, 1), R(arm.Failures + 1, 1)>>

\* betaDistribution(float64(s+1), float64(f+1)), tabulated once.
SampleTable ==
    [sf \in (0..MaxTabulated) \X (0..MaxTabulated) |->
        LET ab == BetaArgs([ID |-> 0, Successes |-> sf[1], Failures |-> sf[2]])
        IN  betaDistribution(ab[1], ab[2])]

\* betaDistribution(float64(arm.Successes+1), float64(arm.Failures+1))
ArmSamples(arm) ==
    IF <<arm.Successes, arm.Failures>> \in DOMAIN SampleTable
    THEN SampleTable[<<arm.Successes, arm.Failures>>]
    ELSE betaDistribution(BetaArgs(arm)[1], BetaArgs(arm)[2])

\* Mutant of SamplingStep: the comparison reversed.
SamplingStepLess(st, arm, sample) ==
    IF FLt(sample, st.maxSample)
    THEN [maxSample |-> sample, selected |-> arm]
    ELSE st

\* Mutant of SamplingStep: >= in place of >.
SamplingStepGe(st, arm, sample) ==
    IF FGe(sample, st.maxSample)
    THEN [maxSample |-> sample, selected |-> arm]
    ELSE st

\* One iteration of the loop over arms, for the drawn sample:
\*   if sample > maxSample { maxSample = sample; selected = arm }
SamplingStep(st, arm, sample) ==
    IF FGt(sample, st.maxSample)
    THEN [maxSample |-> sample, selected |-> arm]
    ELSE st

\* The loop over arms[1..n] with samples[i] drawn for arms[i].
RECURSIVE SamplingLoop(_, _, _)
SamplingLoop(armSeq, samples, n) ==
    IF n = 0 THEN SamplingStart
    ELSE SamplingStep(SamplingLoop(armSeq, samples, n - 1), armSeq[n], samples[n])

\* thompsonSampling(arms), given the samples its calls of betaDistribution draw.
thompsonSampling(armSeq, samples) == SamplingLoop(armSeq, samples, Len(armSeq)).selected

(***************************************************************************)
(* The store (src/init.sql) and the requests.                              *)
(***************************************************************************)
\* Number of request goroutines; each serves one request.
NumProcs == 2

\* The arms of the test the store holds at start have counters 0..MaxInit.
MaxInit == 1

\* A create request names 0..MaxNewArms arms.
MaxNewArms == 1

Procs == 1..NumProcs

\* The store at start holds test 1 with the arms 1 and 2.
InitTests == {1}

InitArms == {1, 2}

\* Identifiers a request can name; 0 is never the id of a row.
TestIdSpace == 0..(Cardinality(InitTests) + 1)

ArmIdSpace == 0..(Cardinality(InitArms) + 1)

\* The tests a POST .../result names in its path: the tests in the store at
\* start, and 0.
RecordTestIds == {0} \cup InitTests

\* Request bodies of POST .../result: not JSON, {"success": true},
\* {"success": false}, and the JSON object {} without a success field.
Bodies == {"malformed", "true", "false", "empty"}

\* Mutant of DecodeResult: a body without the success field is an error.
DecodeResultStrict(body) ==
    CASE body = "malformed" -> [err |-> TRUE, Success |-> FALSE]
      [] body = "true" -> [err |-> FALSE, Success |-> TRUE]
      [] body = "false" -> [err |-> FALSE, Success |-> FALSE]
      [] body = "empty" -> [err |-> TRUE, Success |-> FALSE]

\* json.NewDecoder(r.Body).Decode(&result) into struct{ Success bool }: a
\* field the body does not carry keeps its zero value, and that is no error.
DecodeResult(body) ==
    CASE body = "malformed" -> [err |-> TRUE, Success |-> FALSE]
      [] body = "true" -> [err |-> FALSE, Success |-> TRUE]
      [] body = "false" -> [err |-> FALSE, Success |-> FALSE]
      [] body = "empty" -> [err |-> FALSE, Success |-> FALSE]

\* Mutant of RecordArm: the arm is looked up under the other path segment.
RecordArmFromTest(r) == r.testID

\* vars := mux.Vars(r); armID := vars["armID"]: the one path segment the
\* handler reads.
RecordArm(r) == r.armID

\* Mutant of UpdateRow: the two CASE branches exchanged.
UpdateRowSwapped(row, success) ==
    [row EXCEPT !.successes = IF success THEN @ ELSE @ + 1,
                !.failures = IF success THEN @ + 1 ELSE @]

\* SET successes = CASE WHEN $1 THEN successes + 1 ELSE successes END,
\*     failures  = CASE WHEN $1 THEN failures ELSE failures + 1 END
UpdateRow(row, success) ==
    [row EXCEPT !.successes = IF success THEN @ + 1 ELSE @,
                !.failures = IF success THEN @ ELSE @ + 1]

\* Mutant of UpdateArms: the WHERE clause left out.
UpdateArmsNoWhere(table, success, armID) ==
    [a \in DOMAIN table |-> UpdateRow(table[a], success)]

\* UPDATE arms SET ... WHERE id = $2: the table after the statement.
UpdateArms(table, success, armID) ==
    [a \in DOMAIN table |-> IF a = armID THEN UpdateRow(table[a], success) ELSE table[a]]

\* RETURNING successes, failures: the rows the statement returns, read from
\* the table after the update.
Returning(table, armID) ==
    IF armID \in DOMAIN table
    THEN << <<table[armID].successes, table[armID].failures>> >>
    ELSE << >>

\* Mutant of ScanRow: the destinations of Scan exchanged.
ScanRowSwapped(row) == [successes |-> row[2], failures |-> row[1]]

\* var successes, failures int; ....Scan(&successes, &failures)
ScanRow(row) == [successes |-> row[1], failures |-> row[2]]

\* Mutant of RecordStatus: sql.ErrNoRows not told apart from other errors.
RecordStatusNoRowsCheck(err) == IF err = "nil" THEN 200 ELSE 500

\* The status handleRecordResult answers for the error of QueryRow(...).Scan.
RecordStatus(err) ==
    IF err = "nil" THEN 200
    ELSE IF err = "ErrNoRows" THEN 404
    ELSE 500

\* SELECT id, name, successes, failures FROM arms WHERE test_id = $1
SelectArms(table, testID) == {a \in DOMAIN table : table[a].test = testID}

\* The orders in which a result set can be delivered (no ORDER BY).
Orderings(S) == {sq \in [1..Cardinality(S) -> S] : \A i, j \in 1..Cardinality(S) : sq[i] = sq[j] => i = j}

\* rows.Scan(&arm.ID, &arm.Name, &arm.Successes, &arm.Failures)
ScanArm(table, a) == [ID |-> a, Successes |-> table[a].successes, Failures |-> table[a].failures]

(***************************************************************************)
(* State.                                                                  *)
(***************************************************************************)
VARIABLES
    tests,      \* table tests: the ids of the committed rows
    arms,       \* table arms: id -> [test, successes, failures], committed rows
    nextTest,   \* the next id the store generates for a test
    nextArm,    \* the next id the store generates for an arm
    pc,         \* pc[p]: where request goroutine p stands
    req,        \* req[p]: the request p serves
    loc,        \* loc[p]: the handler's local variables
    resp,       \* resp[p]: the response written to w
    arms0,      \* history: table arms at start
    sel,        \* a call of thompsonSampling on its own (SpecSelect)
    bet,        \* a call of betaDistribution on its own (SpecBeta)
    gam,        \* a call of gammaDistribution on its own (SpecGamma)
    rng,        \* the process-wide source of math/rand (SpecSeed)
    ts          \* ts[q]: concurrent calls of thompsonSampling (SpecSeed)

vars == <<tests, arms, nextTest, nextArm, pc, req, loc, resp, arms0, sel, bet, gam, rng, ts>>

\* The calls that run on their own, outside the server.
calls == <<sel, bet, gam, rng, ts>>

\* The server's variables.
server == <<tests, arms, nextTest, nextArm, pc, req, loc, resp, arms0>>

NoSel == [pc |-> "none", arms |-> << >>, samples |-> << >>, st |-> SamplingStart, out |-> ZeroArm]

NoBet == [pc |-> "none", alpha |-> Zero, beta |-> Zero, x |-> Zero, y |-> Zero, out |-> Zero]

\* shape:  the argument of the outermost call
\* alpha:  the argument of the call that is running
\* stack:  the alpha of every call waiting for its recursive call to return
\* args:   history: the arguments of the recursive calls made so far
\* d, c, x, v, u: the locals of the loop; ret: the value being returned
\* nonPos: history: the loop has drawn a candidate with v <= 0
NoGam ==
    [pc |-> "none", shape |-> Zero, alpha |-> Zero, stack |-> << >>, args |-> << >>,
     d |-> Zero, c |-> Zero, x |-> Zero, v |-> Zero, u |-> Zero,
     nonPos |-> FALSE, ret |-> Zero, out |-> Zero]

\* The source as the runtime sets it up at process start: seed 0 stands for
\* the start seed, pos counts the samples drawn since the last seeding.
StartRng == [seed |-> 0, pos |-> 0]

\* Number of concurrent calls of thompsonSampling in SpecSeed.
NumCallers == 2

Callers == 1..NumCallers

NoTs == [q \in Callers |-> [pc |-> "none", n |-> 0, i |-> 0]]

NoReq == [kind |-> "none", testID |-> 0, armID |-> 0, body |-> "none", nArms |-> 0]

NoResp == [status |-> 0, successes |-> 0, failures |-> 0, arm |-> ZeroArm, test |-> 0, nArms |-> 0]

\* success:        result.Success
\* err, rows:      what s.db.QueryRow / s.db.Query handed back
\* armSeq, i:      arms and the loop index
\* txTest, txArms: the rows inserted in the open transaction
\* applied, missing, pre, post: history of this request's own UPDATE:
\*                 whether it changed a row, whether it ran and matched no
\*                 row, and the matched row's counters before and after
\* moved:          history: when the answer was written, another request
\*                 had changed the row since this request's own UPDATE
\* seenTest:       history: the test named was committed when the SELECT ran
\* storeFailed:    history: a call to the store failed in this request
NoLoc ==
    [success |-> FALSE, err |-> "nil", rows |-> << >>,
     armSeq |-> << >>, i |-> 0,
     txTest |-> 0, txArms |-> << >>,
     applied |-> FALSE, missing |-> FALSE, pre |-> <<0, 0>>, post |-> <<0, 0>>,
     moved |-> FALSE, seenTest |-> FALSE, storeFailed |-> FALSE]

Requests ==
    {[NoReq EXCEPT !.kind = "record", !.testID = t, !.armID = a, !.body = b] :
        <<t, a, b>> \in RecordTestIds \X ArmIdSpace \X Bodies}
    \cup {[NoReq EXCEPT !.kind = "getarm", !.testID = t] : t \in TestIdSpace}
    \cup {[NoReq EXCEPT !.kind = "create", !.body = b, !.nArms = n] :
        <<b, n>> \in ({"ok"} \X (0..MaxNewArms)) \cup {<<"malformed", 0>>}}

Init ==
    /\ tests = InitTests
    /\ arms \in [InitArms -> [test : InitTests, successes : 0..MaxInit, failures : 0..MaxInit]]
    /\ arms0 = arms
    /\ nextTest = Cardinality(InitTests) + 1
    /\ nextArm = Cardinality(InitArms) + 1
    /\ pc = [p \in Procs |-> "idle"]
    /\ req = [p \in Procs |-> NoReq]
    /\ loc = [p \in Procs |-> NoLoc]
    /\ resp = [p \in Procs |-> NoResp]
    /\ sel = NoSel
    /\ bet = NoBet
    /\ gam = NoGam
    /\ rng = StartRng
    /\ ts = NoTs

\* http.Error(w, ..., status); return
Fail(p, status) ==
    /\ resp' = [resp EXCEPT ![p] = [NoResp EXCEPT !.status = status]]
    /\ pc' = [pc EXCEPT ![p] = "done"]

\* routes: the router hands request r to its handler in a goroutine of its own.
Serve(p) ==
    /\ pc[p] = "idle"
    /\ \E r \in Requests :
        /\ req' = [req EXCEPT ![p] = r]
        /\ pc' = [pc EXCEPT ![p] =
                    CASE r.kind = "record" -> "rec_decode"
                      [] r.kind = "getarm" -> "get_query"
                      [] r.kind = "create" -> "cr_decode"]
    /\ UNCHANGED <<tests, arms, nextTest, nextArm, loc, resp, arms0, calls>>

(***************************************************************************)
(* handleRecordResult (src/main.go:130-167).                               *)
(***************************************************************************)
\* Decode the body; a malformed body is answered 400.
RecordDecode(p) ==
    /\ pc[p] = "rec_decode"
    /\ LET dec == DecodeResult(req[p].body)
       IN  IF dec.err
           THEN Fail(p, 400) /\ UNCHANGED loc
           ELSE /\ loc' = [loc EXCEPT ![p].success = dec.Success]
                /\ pc' = [pc EXCEPT ![p] = "rec_query"]
                /\ UNCHANGED resp
    /\ UNCHANGED <<tests, arms, nextTest, nextArm, req, arms0, calls>>

\* s.db.QueryRow(query, result.Success, armID): the store runs the UPDATE as
\* one statement in a transaction of its own (the row is locked for the
\* read-modify-write), or fails before the statement takes effect.
RecordQuery(p) ==
    /\ pc[p] = "rec_query"
    /\ \/ /\ loc' = [loc EXCEPT ![p].err = "store", ![p].storeFailed = TRUE]
          /\ UNCHANGED arms
       \/ LET a == RecordArm(req[p])
              after == UpdateArms(arms, loc[p].success, a)
              hit == a \in DOMAIN arms
          IN  /\ arms' = after
              /\ loc' = [loc EXCEPT ![p].rows = Returning(after, a),
                                    ![p].applied = after # arms,
                                    ![p].missing = ~hit,
                                    ![p].pre = IF hit THEN <<arms[a].successes, arms[a].failures>> ELSE @,
                                    ![p].post = IF hit THEN <<after[a].successes, after[a].failures>> ELSE @]
    /\ pc' = [pc EXCEPT ![p] = "rec_scan"]
    /\ UNCHANGED <<tests, nextTest, nextArm, req, resp, arms0, calls>>

\* .Scan(&successes, &failures) and the response.  Reading the returned row
\* can fail after the statement has been committed (the connection breaks);
\* no row is sql.ErrNoRows.
RecordScan(p) ==
    /\ pc[p] = "rec_scan"
    /\ \E err \in (IF loc[p].err # "nil" THEN {loc[p].err}
                   ELSE {"store", IF Len(loc[p].rows) = 0 THEN "ErrNoRows" ELSE "nil"}) :
        /\ loc' = [loc EXCEPT ![p].err = err, ![p].storeFailed = (err = "store"),
                              ![p].moved = /\ loc[p].applied
                                           /\ <<arms[req[p].armID].successes,
                                                arms[req[p].armID].failures>> # loc[p].post]
        /\ IF err # "nil"
           THEN Fail(p, RecordStatus(err))
           ELSE /\ resp' = [resp EXCEPT ![p] =
                        [NoResp EXCEPT !.status = RecordStatus(err),
                                       !.successes = ScanRow(loc[p].rows[1]).successes,
                                       !.failures = ScanRow(loc[p].rows[1]).failures]]
                /\ pc' = [pc EXCEPT ![p] = "done"]
    /\ UNCHANGED <<tests, arms, nextTest, nextArm, req, arms0, calls>>

(***************************************************************************)
(* handleGetArm (src/main.go:92-127).                                      *)
(***************************************************************************)
\* s.db.Query(SELECT ...) and the loop over rows.Next().  The query can fail;
\* a rows.Scan can fail; and rows.Next() returns false both at the end of the
\* result set and when the iteration fails part-way (the handler does not
\* call rows.Err()), which leaves the first n rows in arms.
GetQuery(p) ==
    /\ pc[p] = "get_query"
    /\ \/ loc' = [loc EXCEPT ![p].err = "store", ![p].storeFailed = TRUE,
                             ![p].seenTest = req[p].testID \in tests]
       \/ \E order \in Orderings(SelectArms(arms, req[p].testID)) :
          \E n \in 0..Len(order) :
          \E scanErr \in {e \in BOOLEAN : e => n < Len(order)} :
             loc' = [loc EXCEPT ![p].armSeq = [k \in 1..n |-> ScanArm(arms, order[k])],
                                ![p].err = IF scanErr THEN "scan" ELSE "nil",
                                ![p].storeFailed = n < Len(order),
                                ![p].seenTest = req[p].testID \in tests]
    /\ pc' = [pc EXCEPT ![p] = "get_select"]
    /\ UNCHANGED <<tests, arms, nextTest, nextArm, req, resp, arms0, calls>>

\* The values the calls of betaDistribution can draw for arms[1..n].
RECURSIVE SampleVectors(_, _)
SampleVectors(armSeq, n) ==
    IF n = 0 THEN {<< >>}
    ELSE {Append(sv, x) : <<sv, x>> \in SampleVectors(armSeq, n - 1) \X ArmSamples(armSeq[n])}

\* The arms thompsonSampling(arms) can return, over all draws.
Selections(armSeq) ==
    {thompsonSampling(armSeq, samples) : samples \in SampleVectors(armSeq, Len(armSeq))}

\* The error returns, the len(arms) == 0 check, thompsonSampling(arms) and
\* json.NewEncoder(w).Encode(selectedArm).  Nothing here touches the store.
GetSelect(p) ==
    /\ pc[p] = "get_select"
    /\ IF loc[p].err # "nil"
       THEN Fail(p, 500)
       ELSE IF Len(loc[p].armSeq) = 0
       THEN Fail(p, 404)
       ELSE \E selectedArm \in Selections(loc[p].armSeq) :
            /\ resp' = [resp EXCEPT ![p] = [NoResp EXCEPT !.status = 200, !.arm = selectedArm]]
            /\ pc' = [pc EXCEPT ![p] = "done"]
    /\ UNCHANGED <<tests, arms, nextTest, nextArm, req, loc, arms0, calls>>

(***************************************************************************)
(* handleCreateTest (src/main.go:43-89).                                   *)
(***************************************************************************)
\* json.NewDecoder(r.Body).Decode(&test)
CreateDecode(p) ==
    /\ pc[p] = "cr_decode"
    /\ IF req[p].body = "malformed"
       THEN Fail(p, 400)
       ELSE pc' = [pc EXCEPT ![p] = "cr_begin"] /\ UNCHANGED resp
    /\ UNCHANGED <<tests, arms, nextTest, nextArm, req, loc, arms0, calls>>

\* tx, err := s.db.Begin(); defer tx.Rollback()
CreateBegin(p) ==
    /\ pc[p] = "cr_begin"
    /\ \/ Fail(p, 500)
       \/ pc' = [pc EXCEPT ![p] = "cr_test"] /\ UNCHANGED resp
    /\ UNCHANGED <<tests, arms, nextTest, nextArm, req, loc, arms0, calls>>

\* INSERT INTO tests ... RETURNING id: the row stays private to the
\* transaction; the store generates the id.
CreateInsertTest(p) ==
    /\ pc[p] = "cr_test"
    /\ \/ Fail(p, 500) /\ UNCHANGED <<loc, nextTest>>
       \/ /\ loc' = [loc EXCEPT ![p].txTest = nextTest, ![p].i = 1]
          /\ nextTest' = nextTest + 1
          /\ pc' = [pc EXCEPT ![p] = "cr_arms"]
          /\ UNCHANGED resp
    /\ UNCHANGED <<tests, arms, nextArm, req, arms0, calls>>

\* for i := range test.Arms { INSERT INTO arms ... RETURNING id }
CreateInsertArm(p) ==
    /\ pc[p] = "cr_arms"
    /\ loc[p].i <= req[p].nArms
    /\ \/ Fail(p, 500) /\ UNCHANGED <<loc, nextArm>>
       \/ /\ loc' = [loc EXCEPT ![p].txArms = Append(@, nextArm), ![p].i = @ + 1]
          /\ nextArm' = nextArm + 1
          /\ UNCHANGED <<pc, resp>>
    /\ UNCHANGED <<tests, arms, nextTest, req, arms0, calls>>

\* Mutant of CommitArms: the commit rewrites the counters of every arm to 0.
CommitArmsReset(table, testID, newArms) ==
    [a \in DOMAIN table \cup {newArms[k] : k \in 1..Len(newArms)} |->
        [test |-> IF a \in DOMAIN table THEN table[a].test ELSE testID,
         successes |-> 0, failures |-> 0]]

\* The rows of a committed transaction: the test and its arms, the counters
\* at their column default 0.
CommitArms(table, testID, newArms) ==
    [a \in DOMAIN table \cup {newArms[k] : k \in 1..Len(newArms)} |->
        IF a \in DOMAIN table THEN table[a]
        ELSE [test |-> testID, successes |-> 0, failures |-> 0]]

\* tx.Commit() and the response.  The store either fails to commit, which
\* leaves nothing behind, or commits; in the second case tx.Commit() returns
\* nil, or returns an error when the connection breaks before the store's
\* acknowledgement has been read.
CreateCommit(p) ==
    /\ pc[p] = "cr_arms"
    /\ loc[p].i > req[p].nArms
    /\ \/ Fail(p, 500) /\ UNCHANGED <<tests, arms>>
       \/ /\ tests' = tests \cup {loc[p].txTest}
          /\ arms' = CommitArms(arms, loc[p].txTest, loc[p].txArms)
          /\ \/ /\ resp' = [resp EXCEPT ![p] =
                      [NoResp EXCEPT !.status = 200, !.test = loc[p].txTest,
                                     !.nArms = Len(loc[p].txArms)]]
                /\ pc' = [pc EXCEPT ![p] = "done"]
             \/ Fail(p, 500)
    /\ UNCHANGED <<nextTest, nextArm, req, loc, arms0, calls>>

Next ==
    \E p \in Procs :
        \/ Serve(p)
        \/ RecordDecode(p)
        \/ RecordQuery(p)
        \/ RecordScan(p)
        \/ GetQuery(p)
        \/ GetSelect(p)
        \/ CreateDecode(p)
        \/ CreateBegin(p)
        \/ CreateInsertTest(p)
        \/ CreateInsertArm(p)
        \/ CreateCommit(p)

Spec == Init /\ [][Next]_vars

(***************************************************************************)
(* Properties of handleRecordResult.                                       *)
(***************************************************************************)
RecordCalls(a) == {p \in Procs : req[p].kind = "record" /\ req[p].armID = a}

Flag(p) == DecodeResult(req[p].body).Success

Answered(p, kind) == pc[p] = "done" /\ req[p].kind = kind

\* The counters arm a had at start; an arm created later starts at (0, 0).
Base(a) == IF a \in DOMAIN arms0 THEN arms0[a] ELSE [test |-> 0, successes |-> 0, failures |-> 0]

\* C1: no lost updates.  When every handleRecordResult call naming arm a has
\* been answered 200, whatever the interleaving was, a's successes are the
\* starting value plus the number of calls with success=true and its failures
\* the starting value plus the number of calls with success=false.
C1_NoLostUpdates ==
    \A a \in DOMAIN arms :
        (\A p \in RecordCalls(a) : pc[p] = "done" /\ resp[p].status = 200)
        => /\ arms[a].successes = Base(a).successes + Cardinality({p \in RecordCalls(a) : Flag(p)})
           /\ arms[a].failures = Base(a).failures + Cardinality({p \in RecordCalls(a) : ~Flag(p)})

\* Every goroutine has recorded success=true against the same arm and has
\* been answered 200.
C1_Witness ==
    /\ NumProcs >= 2
    /\ \E a \in DOMAIN arms :
        \A p \in Procs : p \in RecordCalls(a) /\ Flag(p) /\ pc[p] = "done" /\ resp[p].status = 200

\* The counters the UPDATE is to leave in a row with counters pair.
Incremented(pair, success) ==
    IF success THEN <<pair[1] + 1, pair[2]>> ELSE <<pair[1], pair[2] + 1>>

\* C2: the UPDATE of a call on an existing arm changes that arm to (s+1, f)
\* if success is true and to (s, f+1) otherwise and changes no other row, and
\* a call answered 200 carries the post-increment pair of its arm.
C2_ExactlyOneCounter ==
    [][\A p \in Procs :
        /\ (pc[p] = "rec_query" /\ pc'[p] = "rec_scan" /\ loc'[p].err = "nil"
                /\ req[p].armID \in DOMAIN arms)
            => LET a == req[p].armID
               IN  /\ DOMAIN arms' = DOMAIN arms
                   /\ <<arms'[a].successes, arms'[a].failures>>
                        = Incremented(<<arms[a].successes, arms[a].failures>>, Flag(p))
                   /\ arms'[a].test = arms[a].test
                   /\ \A b \in DOMAIN arms \ {a} : arms'[b] = arms[b]
        /\ (pc[p] = "rec_scan" /\ pc'[p] = "done" /\ resp'[p].status = 200)
            => /\ loc[p].applied
               /\ <<resp'[p].successes, resp'[p].failures>> = Incremented(loc[p].pre, Flag(p))
      ]_vars

\* A call on an arm with a non-zero counter was answered 200 while another
\* arm had non-zero counters as well.
C2_Witness ==
    \E p \in Procs :
        /\ Answered(p, "record") /\ resp[p].status = 200
        /\ resp[p].successes + resp[p].failures >= 2
        /\ \E b \in DOMAIN arms \ {req[p].armID} : arms[b].successes + arms[b].failures > 0

\* C3: the pair a caller is answered is the pair its arm held right after
\* the caller's own increment, also when other calls on the arm ran in
\* between.
C3_ConsistentPair ==
    \A p \in Procs :
        (Answered(p, "record") /\ resp[p].status = 200)
        => <<resp[p].successes, resp[p].failures>> = loc[p].post

\* Two calls on one arm overlapped: the other call's UPDATE ran between this
\* call's UPDATE and its answer, and both were answered 200.
C3_Witness ==
    \E p, q \in Procs :
        /\ p # q
        /\ req[p].armID = req[q].armID
        /\ Answered(p, "record") /\ resp[p].status = 200
        /\ Answered(q, "record") /\ resp[q].status = 200
        /\ loc[p].moved
        /\ Flag(p) /\ ~Flag(q)
        /\ resp[p].failures # resp[q].failures

\* C4: a call whose UPDATE matches no row changes no row, is never answered
\* 200, and is answered 404 unless reading the statement's result failed.
C4_UnknownArm ==
    /\ [][\A p \in Procs :
            (pc[p] = "rec_query" /\ pc'[p] = "rec_scan" /\ req[p].armID \notin DOMAIN arms)
            => arms' = arms]_vars
    /\ [](\A p \in Procs :
            (Answered(p, "record") /\ loc[p].missing)
            => /\ ~loc[p].applied
               /\ resp[p].status = (IF loc[p].storeFailed THEN 500 ELSE 404))

\* A call naming an arm that does not exist was answered 404 while the store
\* holds arms with non-zero counters.
C4_Witness ==
    \E p \in Procs :
        /\ Answered(p, "record") /\ loc[p].missing /\ resp[p].status = 404
        /\ req[p].armID \notin DOMAIN arms
        /\ \E b \in DOMAIN arms : arms[b].successes > 0

\* C5, as claimed: a call answered with a failure has changed no counter, and
\* a call that changed a counter is answered 200.
C5_FailureLeavesCounters ==
    \A p \in Procs :
        Answered(p, "record")
        => /\ (resp[p].status # 200 => ~loc[p].applied)
           /\ (loc[p].applied => resp[p].status = 200)

\* C21: the UPDATE of handleRecordResult and its answer are determined by
\* the armID path segment and the success flag alone: the table after the
\* statement is the table before with the arm named armID incremented,
\* whatever test the path names and whatever test the arm belongs to, and
\* two answered calls that differ only in testID have made the same
\* increment and carry the pair their own increment left.
C21_TestIdIgnored ==
    /\ [][\A p \in Procs :
            (pc[p] = "rec_query" /\ pc'[p] = "rec_scan" /\ loc'[p].err = "nil")
            => /\ arms' = UpdateArms(arms, Flag(p), req[p].armID)
               /\ loc'[p].rows = Returning(arms', req[p].armID)
               /\ req[p].armID \in DOMAIN arms
                    => arms'[req[p].armID] # arms[req[p].armID]]_vars
    /\ [](\A p, q \in Procs :
            (/\ Answered(p, "record") /\ Answered(q, "record")
             /\ req[p].armID = req[q].armID /\ req[p].body = req[q].body
             /\ resp[p].status = 200 /\ resp[q].status = 200)
            => /\ loc[p].post[1] - loc[p].pre[1] = loc[q].post[1] - loc[q].pre[1]
               /\ loc[p].post[2] - loc[p].pre[2] = loc[q].post[2] - loc[q].pre[2]
               /\ <<resp[p].successes, resp[p].failures>> = Incremented(loc[p].pre, Flag(p))
               /\ <<resp[q].successes, resp[q].failures>> = Incremented(loc[q].pre, Flag(q)))

\* Two calls that differ only in testID, one naming the arm's own test and
\* one naming another, were both answered 200 and both incremented the arm.
C21_Witness ==
    \E p, q \in Procs :
        /\ Answered(p, "record") /\ Answered(q, "record")
        /\ req[p].armID = req[q].armID /\ req[p].body = req[q].body
        /\ req[p].armID \in DOMAIN arms
        /\ req[p].testID = arms[req[p].armID].test
        /\ req[q].testID # arms[req[q].armID].test
        /\ resp[p].status = 200 /\ resp[q].status = 200
        /\ loc[p].applied /\ loc[q].applied

\* C22: a call whose body is a JSON object without a success field is not
\* answered 400; it is decoded as success=false, its UPDATE adds 1 to the
\* failures of the arm named and leaves the arm's successes as they were,
\* and a 200 answer carries that pair.
C22_MissingSuccessField ==
    /\ [](\A p \in Procs :
            (req[p].kind = "record" /\ req[p].body = "empty")
            => /\ pc[p] \in {"rec_query", "rec_scan", "done"} => ~loc[p].success
               /\ pc[p] = "done" => resp[p].status # 400
               /\ (pc[p] = "done" /\ resp[p].status = 200)
                    => /\ resp[p].successes = loc[p].pre[1]
                       /\ resp[p].failures = loc[p].pre[2] + 1)
    /\ [][\A p \in Procs :
            (/\ req[p].kind = "record" /\ req[p].body = "empty"
             /\ pc[p] = "rec_query" /\ pc'[p] = "rec_scan" /\ loc'[p].err = "nil"
             /\ req[p].armID \in DOMAIN arms)
            => /\ arms'[req[p].armID].failures = arms[req[p].armID].failures + 1
               /\ arms'[req[p].armID].successes = arms[req[p].armID].successes]_vars

\* A call with a body without the success field, on an arm with successes
\* above 0, was answered 200 with the arm's failures one higher.
C22_Witness ==
    \E p \in Procs :
        /\ Answered(p, "record") /\ req[p].body = "empty"
        /\ resp[p].status = 200
        /\ loc[p].applied
        /\ resp[p].successes > 0
        /\ resp[p].failures = loc[p].pre[2] + 1

(***************************************************************************)
(* Properties of the store under all three handlers.                       *)
(***************************************************************************)
\* C12: in every reachable state each arm's successes and failures are
\* non-negative integers, and in every step every arm that exists stays in
\* the table with neither counter smaller than before.
C12_CountersMonotone ==
    /\ [](\A a \in DOMAIN arms : arms[a].successes \in Nat /\ arms[a].failures \in Nat)
    /\ [][\A a \in DOMAIN arms :
            /\ a \in DOMAIN arms'
            /\ arms'[a].successes >= arms[a].successes
            /\ arms'[a].failures >= arms[a].failures]_vars

\* A test was created while the store already held a non-zero counter, and an
\* outcome has been recorded against one of the new test's arms.
C12_Witness ==
    /\ \E b \in DOMAIN arms0 : arms0[b].successes > 0 /\ arms[b] = arms0[b]
    /\ \E a \in DOMAIN arms \ DOMAIN arms0 : arms[a].successes + arms[a].failures > 0

\* C13, as claimed: every test in the store has at least one arm.
C13_TestHasArm ==
    \A t \in tests : \E a \in DOMAIN arms : arms[a].test = t

(***************************************************************************)
(* thompsonSampling called on its own, for every bounded arm sequence.     *)
(***************************************************************************)
\* Length of the arm sequences passed to thompsonSampling: 0..MaxSeq.
MaxSeq == 2

\* The counters of these arms are 0 or MaxCount.
MaxCount == 1

\* The server at rest, with an empty store.
ServerIdle ==
    /\ tests = {}
    /\ arms = << >>
    /\ arms0 = << >>
    /\ nextTest = 1
    /\ nextArm = 1
    /\ pc = [p \in Procs |-> "idle"]
    /\ req = [p \in Procs |-> NoReq]
    /\ loc = [p \in Procs |-> NoLoc]
    /\ resp = [p \in Procs |-> NoResp]

\* Arm sequences as handleGetArm builds them: rows with distinct ids.
ArmSeqs ==
    UNION {{sq \in [1..n -> [ID : 1..n, Successes : {0, MaxCount}, Failures : {0, MaxCount}]] :
                \A k \in 1..n : sq[k].ID = k} : n \in 0..MaxSeq}

InitSelect ==
    /\ ServerIdle
    /\ bet = NoBet
    /\ gam = NoGam
    /\ rng = StartRng
    /\ ts = NoTs
    /\ \E sq \in ArmSeqs : sel = [NoSel EXCEPT !.pc = "loop", !.arms = sq]

\* One iteration of `for _, arm := range arms`: the sample is drawn and
\* compared with the running maximum.
SelectIterate ==
    /\ sel.pc = "loop"
    /\ Len(sel.samples) < Len(sel.arms)
    /\ LET arm == sel.arms[Len(sel.samples) + 1]
       IN  \E sample \in ArmSamples(arm) :
              sel' = [sel EXCEPT !.samples = Append(@, sample),
                                 !.st = SamplingStep(@, arm, sample)]
    /\ UNCHANGED <<server, bet, gam, rng, ts>>

\* return selected
SelectReturn ==
    /\ sel.pc = "loop"
    /\ Len(sel.samples) = Len(sel.arms)
    /\ sel' = [sel EXCEPT !.pc = "done", !.out = sel.st.selected]
    /\ UNCHANGED <<server, bet, gam, rng, ts>>

NextSelect == SelectIterate \/ SelectReturn

SpecSelect == InitSelect /\ [][NextSelect]_vars

Range(sq) == {sq[k] : k \in 1..Len(sq)}

\* C6, as claimed: thompsonSampling called with no arms does not return the
\* zero-valued Arm (an Arm is all the function can return: it has no error
\* result and does not panic).
C6_EmptySignalsError ==
    (sel.pc = "done" /\ Len(sel.arms) = 0) => sel.out # ZeroArm

C8_FirstMaximum ==
    (sel.pc = "done" /\ Len(sel.arms) > 0)
    => \E k \in 1..Len(sel.arms) :
          /\ sel.out = sel.arms[k]
          /\ \A j \in 1..Len(sel.arms) : FLe(sel.samples[j], sel.samples[k])
          /\ \A j \in 1..(k - 1) : FLt(sel.samples[j], sel.samples[k])

\* Two arms drew the same maximal sample and the first was returned.
C8_Witness ==
    /\ sel.pc = "done"
    /\ Len(sel.arms) = 2
    /\ sel.samples[1] = sel.samples[2]
    /\ sel.out = sel.arms[1]

(***************************************************************************)
(* betaDistribution called on its own.                                     *)
(***************************************************************************)
\* The shape parameters tried: 1/k and k for k in 1..MaxShape.
MaxShape == 2

Shapes == {R(1, k) : k \in 1..MaxShape} \cup {R(k, 1) : k \in 1..MaxShape}

InitBeta ==
    /\ ServerIdle
    /\ sel = NoSel
    /\ gam = NoGam
    /\ rng = StartRng
    /\ ts = NoTs
    /\ \E a, b \in Shapes : bet = [NoBet EXCEPT !.pc = "x", !.alpha = a, !.beta = b]

\* x := gammaDistribution(alpha)
BetaDrawX ==
    /\ bet.pc = "x"
    /\ \E x \in gammaDistribution(bet.alpha) : bet' = [bet EXCEPT !.pc = "y", !.x = x]
    /\ UNCHANGED <<server, sel, gam, rng, ts>>

\* y := gammaDistribution(beta)
BetaDrawY ==
    /\ bet.pc = "y"
    /\ \E y \in gammaDistribution(bet.beta) : bet' = [bet EXCEPT !.pc = "ret", !.y = y]
    /\ UNCHANGED <<server, sel, gam, rng, ts>>

\* return x / (x + y)
BetaReturn ==
    /\ bet.pc = "ret"
    /\ bet' = [bet EXCEPT !.pc = "done", !.out = BetaRatio(bet.x, bet.y)]
    /\ UNCHANGED <<server, sel, gam, rng, ts>>

NextBeta == BetaDrawX \/ BetaDrawY \/ BetaReturn

SpecBeta == InitBeta /\ [][NextBeta]_vars

\* C10, as claimed: for alpha, beta > 0 and every outcome of the draws,
\* betaDistribution returns a value v with 0 <= v <= 1.
C10_BetaInUnitInterval ==
    (bet.pc = "done" /\ FGt(bet.alpha, Zero) /\ FGt(bet.beta, Zero))
    => FGe(bet.out, Zero) /\ FLe(bet.out, One)

\* C11, as claimed: when both gamma draws of betaDistribution are exactly 0,
\* the value returned is a defined number (a fallback), not the NaN of 0/0.
C11_ZeroDrawsFallback ==
    (bet.pc = "done" /\ bet.x = Zero /\ bet.y = Zero) => ~IsNaN(bet.out)

(***************************************************************************)
(* gammaDistribution called on its own, one step per statement.            *)
(***************************************************************************)
\* Calls of gammaDistribution that may wait for a recursive call at once.
MaxDepth == 3

\* The shapes tried: 1/k and k for k in 1..MaxGammaShape.
MaxGammaShape == 3

GammaShapes == {R(1, k) : k \in 1..MaxGammaShape} \cup {R(k, 1) : k \in 1..MaxGammaShape}

InitGamma ==
    /\ ServerIdle
    /\ sel = NoSel
    /\ bet = NoBet
    /\ rng = StartRng
    /\ ts = NoTs
    /\ \E a \in GammaShapes : gam = [NoGam EXCEPT !.pc = "entry", !.shape = a, !.alpha = a]

\* if alpha < 1 { return gammaDistribution(1+alpha) * ... }: the call waits
\* and the recursive call starts.
GammaRecurse ==
    /\ gam.pc = "entry"
    /\ FLt(gam.alpha, One)
    /\ Len(gam.stack) < MaxDepth
    /\ gam' = [gam EXCEPT !.stack = Append(@, gam.alpha),
                          !.args = Append(@, GammaInner(gam.alpha)),
                          !.alpha = GammaInner(gam.alpha)]
    /\ UNCHANGED <<server, sel, bet, rng, ts>>

\* d := alpha - 1/3; c := 1 / math.Sqrt(9*d)
GammaSetup ==
    /\ gam.pc = "entry"
    /\ ~FLt(gam.alpha, One)
    /\ gam' = [gam EXCEPT !.pc = "loop", !.d = SqueezeD(gam.alpha),
                          !.c = SqueezeC(SqueezeD(gam.alpha))]
    /\ UNCHANGED <<server, sel, bet, rng, ts>>

\* One iteration of `for { ... }`: the candidate is drawn and either
\* returned as d*v or dropped.
GammaCandidate ==
    /\ gam.pc = "loop"
    /\ \E x \in NormDraws : \E u \in UnifDraws :
       LET v == Cube(gam.c, x)
       IN  \E accept \in AcceptTest(x, u, gam.d, v) :
              gam' = [gam EXCEPT !.x = x, !.u = u, !.v = v,
                                 !.nonPos = @ \/ ~FGt(v, Zero),
                                 !.ret = IF accept THEN FMul(gam.d, v) ELSE @,
                                 !.pc = IF accept THEN "return" ELSE "loop"]
    /\ UNCHANGED <<server, sel, bet, rng, ts>>

\* The recursive call has returned to the call waiting for it:
\*   return <its value> * math.Pow(rand.Float64(), 1/alpha)
GammaBoost ==
    /\ gam.pc = "return"
    /\ Len(gam.stack) > 0
    /\ LET alpha == gam.stack[Len(gam.stack)]
       IN  \E u \in UnifDraws :
              gam' = [gam EXCEPT !.stack = SubSeq(@, 1, Len(@) - 1),
                                 !.alpha = alpha,
                                 !.u = u,
                                 !.ret = FMul(@, GammaBoostFactor(u, alpha))]
    /\ UNCHANGED <<server, sel, bet, rng, ts>>

\* The outermost call returns.
GammaReturn ==
    /\ gam.pc = "return"
    /\ Len(gam.stack) = 0
    /\ gam' = [gam EXCEPT !.pc = "done", !.out = gam.ret]
    /\ UNCHANGED <<server, sel, bet, rng, ts>>

NextGamma == GammaRecurse \/ GammaSetup \/ GammaCandidate \/ GammaBoost \/ GammaReturn

SpecGamma == InitGamma /\ [][NextGamma]_vars

\* C15, as claimed: in the branch for shape >= 1 the squeeze constants are
\* d = shape - 1/3, with 1/3 the real number one third, and c = 1/sqrt(9d);
\* for shape 1, d is 2/3.  (gam.alpha is the shape of the call running the
\* loop as long as no waiting call has been resumed.)
C15_SqueezeConstants ==
    (gam.pc \in {"loop", "return"} /\ Len(gam.stack) = Len(gam.args))
    => /\ gam.d = FSub(gam.alpha, R(1, 3))
       /\ gam.c = FDiv(One, Sqrt(FMul(R(9, 1), gam.d)))
       /\ gam.alpha = One => gam.d = R(2, 3)

\* C16: the loop hands back d*v only for a candidate with v > 0, so the
\* value the loop returns, and the value gammaDistribution returns, is never
\* negative.
C16_NonPositiveRejected ==
    /\ (gam.pc = "return" /\ Len(gam.stack) = Len(gam.args))
        => FGt(gam.v, Zero) /\ gam.ret = FMul(gam.d, gam.v)
    /\ gam.pc \in {"return", "done"} => FGe(gam.ret, Zero)
    /\ gam.pc = "done" => FGe(gam.out, Zero)

\* The loop drew a candidate with v <= 0, went on drawing, and the call has
\* returned.
C16_Witness ==
    /\ gam.pc = "done"
    /\ gam.nonPos
    /\ FGe(gam.shape, One)

\* C17: a call with 0 < shape < 1 makes one recursive call, with argument
\* 1 + shape >= 1; that call does not recurse; no further call is made.
C17_RecursionDepthOne ==
    (FGt(gam.shape, Zero) /\ FLt(gam.shape, One))
    => /\ Len(gam.args) <= 1
       /\ Len(gam.stack) <= 1
       /\ gam.pc \in {"loop", "return", "done"} => Len(gam.args) = 1
       /\ Len(gam.args) = 1
            => /\ gam.args[1] = FAdd(One, gam.shape)
               /\ FGe(gam.args[1], One)
               /\ (gam.pc = "entry" => ~FLt(gam.alpha, One))

\* A call with shape 1/MaxGammaShape has returned after its one recursive
\* call.
C17_Witness ==
    /\ gam.pc = "done"
    /\ gam.shape = R(1, MaxGammaShape)
    /\ MaxGammaShape > 1
    /\ gam.args = <<FAdd(One, gam.shape)>>

(***************************************************************************)
(* Concurrent calls of thompsonSampling and the shared source of math/rand.*)
(***************************************************************************)
\* time.Now().UnixNano() reads one of the values 1..MaxClock.
MaxClock == 2

InitSeed ==
    /\ ServerIdle
    /\ sel = NoSel
    /\ bet = NoBet
    /\ gam = NoGam
    /\ rng = StartRng
    /\ ts \in [Callers -> {[pc |-> "seed", n |-> n, i |-> 0] : n \in 1..MaxSeq}]

\* rand.Seed(time.Now().UnixNano()), the first statement of thompsonSampling.
\* It puts the shared source into the state the seed determines; a toolchain
\* from Go 1.24 on makes the call a no-op unless GODEBUG=randseednop=0.
TsSeed(q) ==
    /\ ts[q].pc = "seed"
    /\ \/ \E t \in 1..MaxClock : rng' = [seed |-> t, pos |-> 0]
       \/ UNCHANGED rng
    /\ ts' = [ts EXCEPT ![q].pc = "loop"]
    /\ UNCHANGED <<server, sel, bet, gam>>

\* One iteration of the loop over arms: betaDistribution draws from the
\* shared source, which moves on.
TsSample(q) ==
    /\ ts[q].pc = "loop"
    /\ ts[q].i < ts[q].n
    /\ rng' = [rng EXCEPT !.pos = @ + 1]
    /\ ts' = [ts EXCEPT ![q].i = @ + 1]
    /\ UNCHANGED <<server, sel, bet, gam>>

\* return selected
TsReturn(q) ==
    /\ ts[q].pc = "loop"
    /\ ts[q].i = ts[q].n
    /\ ts' = [ts EXCEPT ![q].pc = "done"]
    /\ UNCHANGED <<server, sel, bet, gam, rng>>

NextSeed == \E q \in Callers : TsSeed(q) \/ TsSample(q) \/ TsReturn(q)

SpecSeed == InitSeed /\ [][NextSeed]_vars

\* C19, as claimed: the shared source keeps the seed it got at process start
\* and only moves forward: no step of a call of thompsonSampling, whether or
\* not another call is between two of its draws, reseeds it.
C19_SeededOnce ==
    [][rng'.seed = rng.seed /\ rng'.pos >= rng.pos]_vars

(***************************************************************************)
(* Properties of handleGetArm.                                             *)
(***************************************************************************)
\* C9, as claimed: when the store does not fail, handleGetArm answers 404 for
\* a test that is not in the store, and for a test that is in the store it
\* answers 200 with an arm thompsonSampling selects from the test's arms.
C9_GetNextArm ==
    \A p \in Procs :
        (Answered(p, "getarm") /\ ~loc[p].storeFailed)
        => IF loc[p].seenTest
           THEN resp[p].status = 200 /\ resp[p].arm \in Selections(loc[p].armSeq)
           ELSE resp[p].status = 404

\* C14, as claimed: when the store fails while handleGetArm reads the arms
\* (at the query, at a row scan, or part-way through the rows), the request
\* is answered 500: no arm is selected and the answer is not 404.
C14_StoreFailureReported ==
    \A p \in Procs :
        (Answered(p, "getarm") /\ loc[p].storeFailed) => resp[p].status = 500

\* C18: whenever handleGetArm is about to call, or has called,
\* thompsonSampling, the call of betaDistribution for each arm has
\* alpha = successes + 1 >= 1 and beta = failures + 1 >= 1, so that
\* gammaDistribution gets no shape < 1 (its test `alpha < 1` is false), and an
\* arm with counters (0, 0) is sampled from Beta(1, 1).
C18_ShapesAtLeastOne ==
    \A p \in Procs :
        (req[p].kind = "getarm" /\ pc[p] \in {"get_select", "done"})
        => \A k \in 1..Len(loc[p].armSeq) :
              LET arm == loc[p].armSeq[k]
                  ab == BetaArgs(arm)
              IN  /\ ab = <<R(arm.Successes + 1, 1), R(arm.Failures + 1, 1)>>
                  /\ FGe(ab[1], One) /\ FGe(ab[2], One)
                  /\ ~FLt(ab[1], One) /\ ~FLt(ab[2], One)
                  /\ (arm.Successes = 0 /\ arm.Failures = 0) => ab = <<One, One>>

\* handleGetArm has answered with an arm chosen among an arm with counters
\* (0, 0) and an arm that a concurrent request has recorded an outcome for.
C18_Witness ==
    \E p \in Procs :
        /\ Answered(p, "getarm") /\ resp[p].status = 200
        /\ \E k, j \in 1..Len(loc[p].armSeq) :
              /\ loc[p].armSeq[k].Successes = 0 /\ loc[p].armSeq[k].Failures = 0
              /\ loc[p].armSeq[j].ID \in DOMAIN arms0
              /\ loc[p].armSeq[j].Successes > arms0[loc[p].armSeq[j].ID].successes

(***************************************************************************)
(* Properties of handleCreateTest.                                         *)
(***************************************************************************)
\* C20, as claimed: a create request answered with an error has left neither
\* its test row nor any of its arm rows in the store, and a create request
\* whose test and arms are all in the store was answered with success.
C20_CreateAllOrNothing ==
    \A p \in Procs :
        Answered(p, "create")
        => LET stored == {a \in Range(loc[p].txArms) : a \in DOMAIN arms}
           IN  /\ resp[p].status # 200
                    => loc[p].txTest \notin tests /\ stored = {}
               /\ (/\ loc[p].txTest \in tests
                   /\ stored = Range(loc[p].txArms)
                   /\ Len(loc[p].txArms) = req[p].nArms)
                    => resp[p].status = 200

====
